---- MODULE Spec2Model ----
(***************************************************************************)
(* A model of the per-connection protocol engine of go-smtp (conn.go,      *)
(* backend.go): the command dispatcher Conn.handle and its handlers, the   *)
(* connection loop Server.handleConn, Conn.Close / Server.Close, and the   *)
(* LMTP per-recipient delivery rendezvous of handleData / dataContext.     *)
(*                                                                         *)
(* One connection is modelled.  Every action is one step of the connection *)
(* task (one dispatched command line, one line of a SASL exchange, the     *)
(* return of the session's Data handler, one iteration of the LMTP reply   *)
(* loop), or one step of another task (Server.Close, a delivery worker, a  *)
(* context timer).                                                         *)
(***************************************************************************)
EXTENDS Integers, Sequences, FiniteSets, TLC

\* ------------------------------------------------------------------ bounds
\* Sessions the backend hands out over one connection (Login / AnonymousLogin).
MaxSessions == 2
\* Logout calls counted per session.
MaxLogouts == 2
\* Cap of the unrecognized-command counter nbrErrors.
MaxErrors == 4
\* Length of the recipient list when maxRecipients = 0 (unlimited).
MaxRcptLen == 2
\* DATA transactions (dataContext objects) per connection in the LMTP model.
MaxTx == 2
\* SetStatus calls one delivery worker makes.
MaxSetStatus == 2
\* Most lines of a payload a failed drain leaves unread.
MaxPayload == 2
\* Bytes of a message a client frames for the data reader.
MaxMsgLen == 5

\* ------------------------------------------------------------ value domains
NoSession == 0
SessionIds == 1..MaxSessions
\* The hostname a greeting carries once parseHelloArgument accepted it.
Domains == {"client"}
\* Recipient addresses as they arrive on the wire (after the Trim of "<> ").
Addrs == {"r1", "R1", "r2"}
\* What sasl.Server.Next and the session callbacks (host code) can do.
CallbackResults == {"ok", "err", "smtperr", "panic"}
\* Status codes a delivery worker passes to SetStatus.
StatusCodes == {250, 550}

VARIABLES
    server,         \* Server configuration (read-only while serving)
    helo,           \* Conn.helo
    nbrErrors,      \* Conn.nbrErrors
    session,        \* Conn.session (NoSession = nil)
    fromReceived,   \* Conn.fromReceived
    recipients,     \* Conn.recipients
    recipientsmap,  \* Conn.recipientsmap (its key set)
    XForward,       \* Conn.XForward
    isTLS,          \* Conn.conn is a *tls.Conn
    connClosed,     \* Conn.conn.Close() has been called
    srvClosed,      \* Server.Close has run
    serveClosed,    \* Server.Serve has returned and its deferred Close has run
    pc,             \* position of the connection task
    cmd,            \* verb of the line the last step of the connection task handled
    reply,          \* reply codes the last step wrote (WriteResponse), in order
    calls,          \* backend/session/mechanism callbacks the last step invoked
    lmtpOut,        \* per-recipient replies the LMTP reply loop of the current DATA wrote
    logouts,        \* per session: number of Logout calls so far
    nextSession,    \* number of sessions the backend has created
    sessTx,         \* how far the callbacks the installed session received have
                    \* taken its transaction since its last Reset: "idle", "mail"
                    \* (Mail succeeded), "rcpt" (a Rcpt succeeded)
    tx,             \* number of dataContext objects created (the current one is tx)
    rcptStatus,     \* dataContext.rcptStatus of every dataContext
    lmtpIdx,        \* index into recipients of the LMTP reply loop
    sent,           \* per dataContext and recipient: SetStatus calls completed
    sending,        \* per dataContext and recipient: status a worker is sending
    expiredFirst,   \* per dataContext and recipient: ctx expired before any SetStatus
    statusFirst,    \* per dataContext and recipient: a SetStatus had returned when
                    \* the ctx expired
    mapAccess,      \* per dataContext and recipient: where a worker task stands in
                    \* its write of the rcptStatus map (MapAccesses)
    payloadLeft,    \* lines of a message payload (terminator included) that the
                    \* data reader left unread on the wire
    dataErr,        \* handleData's err: what session.Data returned ("none" outside)
    smtpresponse,   \* dataContext.smtpresponse of the current DATA (0 = nil)
    dotMsg,         \* the message a client frames for the data reader
    dotFraming,     \* how the client framed it (DotFramings)
    dotIn,          \* dotReader.r: the bytes of the wire not read yet
    dotState,       \* dotReader.state
    dotOut          \* the bytes dotReader.Read has delivered so far

connVars == <<helo, nbrErrors, session, fromReceived, recipients, recipientsmap,
              XForward, isTLS, connClosed>>
obsVars == <<cmd, reply, calls, lmtpOut>>
sessVars == <<logouts, nextSession>>
lmtpVars == <<tx, rcptStatus, lmtpIdx, sent, sending, expiredFirst, statusFirst,
             mapAccess>>
dataVars == <<dataErr, smtpresponse>>
dotVars == <<dotMsg, dotFraming, dotIn, dotState, dotOut>>
vars == <<server, connVars, srvClosed, serveClosed, pc, obsVars, sessVars, sessTx, lmtpVars,
          payloadLeft, dataVars, dotVars>>

\* strings.ToLower on the modelled addresses.
\* A case-preserving key, to show what C18 rests on.
ToLowerIdentity(a) == a

ToLower(a) == IF a = "R1" THEN "r1" ELSE a

LowAddrs == {ToLower(a) : a \in Addrs}

ZeroXForward == [Name |-> "", Addr |-> "", Proto |-> "", Helo |-> ""]

Range(s) == {s[i] : i \in 1..Len(s)}

\* A delivery slot that StartDelivery has not created (a nil map entry).
NoSlot == [started |-> FALSE, ctxDone |-> FALSE, ch |-> <<>>]

NoStatus == [code |-> 0, tx |-> 0]

EmptyContext == [r \in LowAddrs |-> NoSlot]

\* ------------------------------------------------------------ configuration
\* Server as built by NewServer and its options.  The connection is accepted
\* from a plain listener (ListenAndServe), so it starts without TLS.
ServerConfigs(lmtpModes) ==
    [lmtp : lmtpModes, authDisabled : BOOLEAN, allowInsecureAuth : BOOLEAN,
     tlsconfig : BOOLEAN, allowXForward : {FALSE}, maxRecipients : {0, 1}]

\* The connection newConn built, at position `at` of its task with the replies
\* `written` so far.
InitConnAt(configs, at, written) ==
    /\ server \in configs
    /\ helo = ""
    /\ nbrErrors = 0
    /\ session = NoSession
    /\ fromReceived = FALSE
    /\ recipients = <<>>
    /\ recipientsmap = {}
    /\ XForward = ZeroXForward
    /\ isTLS = FALSE
    /\ connClosed = FALSE
    /\ srvClosed = FALSE
    /\ serveClosed = FALSE
    /\ pc = at
    /\ cmd = ""
    /\ reply = written
    /\ calls = <<>>
    /\ logouts = [s \in SessionIds |-> 0]
    /\ nextSession = 0
    /\ sessTx = "idle"
    /\ tx = 0
    /\ rcptStatus = [t \in 1..MaxTx |-> EmptyContext]
    /\ lmtpIdx = 0
    /\ lmtpOut = <<>>
    /\ sent = [t \in 1..MaxTx |-> [r \in LowAddrs |-> 0]]
    /\ sending = [t \in 1..MaxTx |-> [r \in LowAddrs |-> NoStatus]]
    /\ expiredFirst = [t \in 1..MaxTx |-> [r \in LowAddrs |-> FALSE]]
    /\ statusFirst = [t \in 1..MaxTx |-> [r \in LowAddrs |-> FALSE]]
    /\ mapAccess = [t \in 1..MaxTx |-> [r \in LowAddrs |-> "none"]]
    /\ payloadLeft = 0
    /\ dataErr = "none"
    /\ smtpresponse = 0

\* The connection once handleConn has registered it and written the greeting.
InitConn(configs) == InitConnAt(configs, "loop", <<220>>)

\* No data reader under observation: the byte-level reader is left idle.
NoReader ==
    /\ dotMsg = <<>>
    /\ dotFraming = "plain"
    /\ dotIn = <<>>
    /\ dotState = "BeginLine"
    /\ dotOut = <<>>

\* ------------------------------------------------------------------ helpers
\* Conn.ReadLine in the command loop (and in the SASL exchange): it takes the
\* next line of the wire, which is a payload line when a drain left some.
ReadsLine == payloadLeft' = IF payloadLeft > 0 THEN payloadLeft - 1 ELSE 0

\* Conn.Close: Logout on the installed session, then close the transport.
LogoutsAfterClose(s) ==
    IF s # NoSession THEN [logouts EXCEPT ![s] = @ + 1] ELSE logouts

LogoutCall(s) == IF s # NoSession THEN <<"Logout">> ELSE <<>>

CanLogout(s) == IF s = NoSession THEN TRUE ELSE logouts[s] < MaxLogouts

Close(s) ==
    /\ CanLogout(s)
    /\ connClosed' = TRUE
    /\ logouts' = LogoutsAfterClose(s)

\* Conn.authAllowed
authAllowed == ~server.authDisabled /\ (isTLS \/ server.allowInsecureAuth)

\* Conn.reset: the fields it clears (the session's Reset call is in the callers' calls').
ResetCall == IF session # NoSession THEN <<"Reset">> ELSE <<>>

\* What the installed session has seen once it has received Reset.
AfterReset == IF session # NoSession THEN "idle" ELSE sessTx

\* A reset that leaves the XForward record alone, to show what C12 rests on.
resetKeepsXForward ==
    /\ fromReceived' = FALSE
    /\ recipients' = <<>>
    /\ recipientsmap' = {}
    /\ UNCHANGED XForward

reset ==
    /\ fromReceived' = FALSE
    /\ recipients' = <<>>
    /\ recipientsmap' = {}
    /\ XForward' = ZeroXForward

\* Conn.unrecognizedCommand
unrecognizedCommand ==
    /\ nbrErrors < MaxErrors
    /\ nbrErrors' = nbrErrors + 1
    /\ IF nbrErrors + 1 > 3
         THEN /\ reply' = <<500, 500>>
              /\ calls' = LogoutCall(session)
              /\ Close(session)
         ELSE /\ reply' = <<500>>
              /\ calls' = <<>>
              /\ UNCHANGED <<connClosed, logouts>>
    /\ UNCHANGED <<helo, session, fromReceived, recipients, recipientsmap, XForward,
                   isTLS, nextSession, sessTx>>

\* The deferred recover of Conn.handle: 421, then Conn.Close.
Panicked(s, before) ==
    /\ reply' = before \o <<421>>
    /\ Close(s)

\* --------------------------------------------- Server.handleConn: the loop
\* A line parseCmd rejects.
Malformed ==
    /\ pc = "loop"
    /\ nbrErrors < MaxErrors
    /\ nbrErrors' = nbrErrors + 1
    /\ cmd' = "malformed"
    /\ lmtpOut' = <<>>
    /\ ReadsLine
    /\ reply' = <<501>>
    /\ calls' = <<>>
    /\ UNCHANGED <<dotVars, server, dataVars, helo, session, fromReceived, recipients, recipientsmap,
                   XForward, isTLS, connClosed, srvClosed, serveClosed, pc, sessVars, sessTx, lmtpVars>>

\* ReadLine fails: io.EOF, a timeout, or another error (also: the transport was
\* closed).  handleConn returns and its deferred function calls Conn.Close.
ReadError(kind) ==
    /\ pc = "loop"
    /\ cmd' = kind
    /\ lmtpOut' = <<>>
    /\ reply' = IF kind = "EOF" THEN <<>> ELSE <<221>>
    /\ calls' = LogoutCall(session)
    /\ Close(session)
    /\ pc' = "exit"
    /\ UNCHANGED <<dotVars, server, dataVars, payloadLeft, helo, nbrErrors, session, fromReceived, recipients,
                   recipientsmap, XForward, isTLS, srvClosed, serveClosed, nextSession, sessTx, lmtpVars>>

\* The rest of the deferred function: delete(s.conns, c).
Unregister ==
    /\ pc = "exit"
    /\ pc' = "done"
    /\ UNCHANGED <<dotVars, server, dataVars, payloadLeft, connVars, srvClosed, serveClosed, obsVars, sessVars, sessTx, lmtpVars>>

\* handleConn's first statements: the connection enters s.conns, then greet.
Register ==
    /\ pc = "accepted"
    /\ pc' = "loop"
    /\ cmd' = ""
    /\ reply' = <<220>>
    /\ calls' = <<>>
    /\ lmtpOut' = <<>>
    /\ UNCHANGED <<dotVars, server, dataVars, payloadLeft, connVars, srvClosed, serveClosed,
                   sessVars, sessTx, lmtpVars>>

\* The loop of Server.Close over s.conns: Conn.Close on the connection when it
\* is in the set (a connection whose handler task has not registered it yet is
\* not).
CloseConns ==
    IF pc = "accepted" THEN UNCHANGED <<connClosed, logouts>> ELSE Close(session)

\* Server.Close, run by another task: Conn.Close on every registered connection.
ServerClose ==
    /\ ~srvClosed
    /\ pc # "done"
    /\ srvClosed' = TRUE
    /\ CloseConns
    /\ UNCHANGED <<serveClosed, dotVars, server, dataVars, payloadLeft, helo, nbrErrors, session, fromReceived, recipients,
                   recipientsmap, XForward, isTLS, pc, obsVars, nextSession, sessTx, lmtpVars>>

\* Server.Serve returns once Server.Close has closed the listener (Accept
\* fails, s.done is signalled), and its deferred s.Close() runs Server.Close a
\* second time.
ServeReturn ==
    /\ srvClosed
    /\ ~serveClosed
    /\ pc # "done"
    /\ serveClosed' = TRUE
    /\ CloseConns
    /\ UNCHANGED <<srvClosed, dotVars, server, dataVars, payloadLeft, helo, nbrErrors, session,
                   fromReceived, recipients, recipientsmap, XForward, isTLS, pc, obsVars,
                   nextSession, sessTx, lmtpVars>>

\* ------------------------------------------------- Conn.handle: dispatching
\* cmd == "", SEND/SOML/SAML/EXPN/HELP/TURN, VRFY, NOOP: one fixed reply.
FixedReply(c) ==
    CASE c = "" -> 500
      [] c = "VRFY" -> 252
      [] c = "NOOP" -> 250
      [] OTHER -> 502

Fixed(c) ==
    /\ pc = "loop"
    /\ cmd' = c
    /\ lmtpOut' = <<>>
    /\ ReadsLine
    /\ reply' = <<FixedReply(c)>>
    /\ calls' = <<>>
    /\ UNCHANGED <<dotVars, server, dataVars, connVars, srvClosed, serveClosed, pc, sessVars, sessTx, lmtpVars>>

\* A verb handle does not know; also AUTH with authDisabled and XFORWARD
\* without allowXForward.
UnrecognizedVerbs ==
    {"FOO"} \cup (IF server.authDisabled THEN {"AUTH"} ELSE {})
            \cup (IF ~server.allowXForward THEN {"XFORWARD"} ELSE {})

Unknown(c) ==
    /\ pc = "loop"
    /\ c \in UnrecognizedVerbs
    /\ cmd' = c
    /\ lmtpOut' = <<>>
    /\ ReadsLine
    /\ unrecognizedCommand
    /\ UNCHANGED <<dotVars, server, dataVars, srvClosed, serveClosed, pc, lmtpVars>>

\* --------------------------------------------------------------- XFORWARD
\* The tokens of an XFORWARD argument: a key and, when the token holds "=", a
\* value.  "BAD" stands for a key handleXForward does not know.
XForwardKeys == {"NAME", "ADDR", "BAD"}

XForwardTokens == [key : XForwardKeys, hasVal : BOOLEAN]

\* One iteration of handleXForward's loop on token t: the field it writes.
XForwardSet(xf, t) ==
    CASE t.key = "NAME" -> [xf EXCEPT !.Name = "x"]
      [] t.key = "ADDR" -> [xf EXCEPT !.Addr = "x"]
      [] OTHER -> xf

\* handleXForward's loop over the tokens from index i on: the record it leaves
\* and how it ends ("ok": all tokens taken; "bad": unknown key, 501 and return;
\* "panic": kv[1] on a token without "=").
RECURSIVE XForwardLoop(_, _, _)
XForwardLoop(xf, toks, i) ==
    IF i > Len(toks) THEN [xf |-> xf, end |-> "ok"]
    ELSE IF toks[i].key = "BAD" THEN [xf |-> xf, end |-> "bad"]
    ELSE IF ~toks[i].hasVal THEN [xf |-> xf, end |-> "panic"]
    ELSE XForwardLoop(XForwardSet(xf, toks[i]), toks, i + 1)

\* XFORWARD on a server that allows it.
XForwardCmd(toks) ==
    /\ pc = "loop"
    /\ server.allowXForward
    /\ cmd' = "XFORWARD"
    /\ lmtpOut' = <<>>
    /\ ReadsLine
    /\ LET r == XForwardLoop(XForward, toks, 1)
       IN  /\ XForward' = r.xf
           /\ IF r.end = "panic"
                 THEN /\ calls' = LogoutCall(session)
                      /\ Panicked(session, <<>>)
                 ELSE /\ reply' = <<IF r.end = "ok" THEN 250 ELSE 501>>
                      /\ calls' = <<>>
                      /\ UNCHANGED <<connClosed, logouts>>
    /\ UNCHANGED <<dotVars, server, dataVars, helo, nbrErrors, session, fromReceived, recipients,
                   recipientsmap, isTLS, srvClosed, serveClosed, pc, nextSession, sessTx, lmtpVars>>

\* HELO / EHLO / LHLO.  dom = "" stands for an argument parseHelloArgument rejects.
GreetMismatch(verb) ==
    (server.lmtp /\ verb # "LHLO") \/ (~server.lmtp /\ verb = "LHLO")

Greet(verb, dom) ==
    /\ pc = "loop"
    /\ cmd' = verb
    /\ lmtpOut' = <<>>
    /\ ReadsLine
    /\ reply' = (IF GreetMismatch(verb) THEN <<500>> ELSE <<>>)
                  \o (IF dom = "" THEN <<501>> ELSE <<250>>)
    /\ helo' = IF dom = "" THEN helo ELSE dom
    /\ calls' = <<>>
    /\ UNCHANGED <<dotVars, server, dataVars, nbrErrors, session, fromReceived, recipients, recipientsmap,
                   XForward, isTLS, connClosed, srvClosed, serveClosed, pc, sessVars, sessTx, lmtpVars>>

\* RSET
Rset ==
    /\ pc = "loop"
    /\ cmd' = "RSET"
    /\ lmtpOut' = <<>>
    /\ ReadsLine
    /\ reset
    /\ calls' = ResetCall
    /\ sessTx' = AfterReset
    /\ reply' = <<250>>
    /\ UNCHANGED <<dotVars, server, dataVars, helo, nbrErrors, session, isTLS, connClosed, srvClosed, serveClosed, pc,
                   sessVars, lmtpVars>>

\* QUIT
Quit ==
    /\ pc = "loop"
    /\ cmd' = "QUIT"
    /\ lmtpOut' = <<>>
    /\ ReadsLine
    /\ reply' = <<221>>
    /\ calls' = LogoutCall(session)
    /\ Close(session)
    /\ UNCHANGED <<dotVars, server, dataVars, helo, nbrErrors, session, fromReceived, recipients,
                   recipientsmap, XForward, isTLS, srvClosed, serveClosed, pc, nextSession, sessTx, lmtpVars>>

\* The reply for an error a backend/session callback returned: an *SMTPError is
\* surfaced verbatim (550 stands for the code it carries), any other error maps
\* to `other`.
ErrorReply(res, other) == IF res = "smtperr" THEN 550 ELSE other

\* A handleMail without its greeting check, to show what C9 rests on.
MailRejectedNever == FALSE

\* handleMail's first check (conn.go: c.helo == "").
MailRejected == helo = ""

\* MAIL.  argOk: the argument passes handleMail's syntax, parameter and SIZE
\* checks; login: what AnonymousLogin does; res: what session.Mail does.
Mail(argOk, login, res) ==
    /\ pc = "loop"
    /\ cmd' = "MAIL"
    /\ lmtpOut' = <<>>
    /\ ReadsLine
    \* an input the path taken does not read has one value
    /\ (MailRejected \/ session # NoSession) => login = "ok"
    /\ (MailRejected \/ (session = NoSession /\ login # "ok")) => argOk
    /\ ~argOk => res = "ok"
    /\ IF MailRejected
         THEN /\ reply' = <<502>>
              /\ calls' = <<>>
              /\ UNCHANGED <<session, nextSession, sessTx, fromReceived, connClosed, logouts>>
         ELSE LET needLogin == session = NoSession
                  loginCalls == IF needLogin THEN <<"AnonymousLogin">> ELSE <<>>
                  sess == IF needLogin THEN nextSession + 1 ELSE session
              IN  IF needLogin /\ login # "ok"
                    THEN /\ calls' = loginCalls
                         /\ UNCHANGED <<session, nextSession, sessTx, fromReceived>>
                         /\ IF login = "panic"
                              THEN Panicked(NoSession, <<>>)
                              ELSE /\ reply' = <<ErrorReply(login, 502)>>
                                   /\ UNCHANGED <<connClosed, logouts>>
                    ELSE /\ needLogin => nextSession < MaxSessions
                         /\ session' = sess
                         /\ nextSession' = IF needLogin THEN sess ELSE nextSession
                         /\ sessTx' = IF argOk /\ res = "ok" /\ sessTx = "idle"
                                         THEN "mail"
                                         ELSE sessTx
                         /\ IF ~argOk
                              THEN /\ reply' = <<501>>
                                   /\ calls' = loginCalls
                                   /\ UNCHANGED <<fromReceived, connClosed, logouts>>
                              ELSE /\ calls' = loginCalls \o <<"Mail">>
                                               \o (IF res = "panic" THEN <<"Logout">> ELSE <<>>)
                                   /\ fromReceived' = (fromReceived \/ res = "ok")
                                   /\ IF res = "panic"
                                        THEN Panicked(sess, <<>>)
                                        ELSE /\ reply' = <<IF res = "ok" THEN 250
                                                           ELSE ErrorReply(res, 451)>>
                                             /\ UNCHANGED <<connClosed, logouts>>
    /\ UNCHANGED <<dotVars, server, dataVars, helo, nbrErrors, recipients, recipientsmap, XForward, isTLS,
                   srvClosed, serveClosed, pc, lmtpVars>>

\* A handleRcpt without its MAIL-first check, to show what C10 rests on.
RcptRejectedNever == FALSE

\* handleRcpt's first check (conn.go: !c.fromReceived).
RcptRejected == ~fromReceived

\* A limit check that lets one recipient too many in, to show what C17 rests on.
RcptLimitOffByOne ==
    server.maxRecipients > 0 /\ Len(recipients) > server.maxRecipients

\* handleRcpt's limit check (conn.go: c.server.maxRecipients > 0 &&
\* len(c.recipients) >= c.server.maxRecipients).
RcptLimitReached ==
    server.maxRecipients > 0 /\ Len(recipients) >= server.maxRecipients

\* RCPT.  a = "" stands for an argument that fails the TO: syntax check;
\* res: what session.Rcpt does.
Rcpt(a, res) ==
    /\ pc = "loop"
    /\ cmd' = "RCPT"
    /\ lmtpOut' = <<>>
    /\ ReadsLine
    \* an input the path taken does not read has one value
    /\ RcptRejected => (a = "" /\ res = "ok")
    /\ (a = "" \/ RcptLimitReached
         \/ (server.lmtp /\ ToLower(a) \in recipientsmap)) => res = "ok"
    /\ IF RcptRejected
         THEN /\ reply' = <<502>>
              /\ calls' = <<>>
              /\ UNCHANGED <<recipients, recipientsmap, connClosed, logouts>>
         ELSE IF a = ""
         THEN /\ reply' = <<501>>
              /\ calls' = <<>>
              /\ UNCHANGED <<recipients, recipientsmap, connClosed, logouts>>
         ELSE IF RcptLimitReached
         THEN /\ reply' = <<552>>
              /\ calls' = <<>>
              /\ UNCHANGED <<recipients, recipientsmap, connClosed, logouts>>
         ELSE IF server.lmtp /\ ToLower(a) \in recipientsmap
         THEN /\ reply' = <<451>>
              /\ calls' = <<>>
              /\ UNCHANGED <<recipients, recipientsmap, connClosed, logouts>>
         ELSE IF res = "panic"
         THEN /\ calls' = <<"Rcpt">> \o LogoutCall(session)
              /\ Panicked(session, <<>>)
              /\ UNCHANGED <<recipients, recipientsmap>>
         ELSE IF res # "ok"
         THEN /\ calls' = <<"Rcpt">>
              /\ reply' = <<ErrorReply(res, 451)>>
              /\ UNCHANGED <<recipients, recipientsmap, connClosed, logouts>>
         ELSE /\ Len(recipients) < MaxRcptLen
              /\ calls' = <<"Rcpt">>
              /\ recipients' = Append(recipients, ToLower(a))
              /\ recipientsmap' = recipientsmap \cup {ToLower(a)}
              /\ reply' = <<250>>
              /\ UNCHANGED <<connClosed, logouts>>
    /\ sessTx' = IF recipients' # recipients THEN "rcpt" ELSE sessTx
    /\ UNCHANGED <<dotVars, server, dataVars, helo, nbrErrors, session, fromReceived, XForward, isTLS,
                   srvClosed, serveClosed, pc, nextSession, lmtpVars>>

\* One round of handleAuth's loop, from sasl.Next on.  next: what the mechanism's
\* Next does: "challenge" (not done), "login" (done; its callback called
\* Backend.Login and SetSession, as the PLAIN factory of newServer does),
\* "done" (done without installing a session), or an error / a panic.
SaslNext(next, before) ==
    /\ calls' = before \o <<"Next">> \o (IF next = "login" THEN <<"Login">> ELSE <<>>)
                       \o (IF next = "panic" THEN LogoutCall(session) ELSE <<>>)
    /\ IF next = "login"
         THEN /\ nextSession < MaxSessions
              /\ session' = nextSession + 1
              /\ nextSession' = nextSession + 1
              /\ sessTx' = "idle"
         ELSE UNCHANGED <<session, nextSession, sessTx>>
    /\ IF next = "panic"
         THEN /\ Panicked(session, <<>>)
              /\ pc' = "loop"
         ELSE /\ reply' = CASE next = "challenge" -> <<334>>
                            [] next = "login" -> <<235>>
                            [] next = "done" -> IF session # NoSession THEN <<235>> ELSE <<>>
                            [] OTHER -> <<ErrorReply(next, 454)>>
              /\ pc' = IF next = "challenge" THEN "sasl" ELSE "loop"
              /\ UNCHANGED <<connClosed, logouts>>

SaslResults == {"challenge", "login", "done", "err", "smtperr", "panic"}

\* AUTH, dispatched by handle when auth is not disabled.  arg: "" (no mechanism
\* named), "badir" (initial response is not base64), "unknown" (mechanism not
\* registered), "ok".
Auth(arg, next) ==
    /\ pc = "loop"
    /\ ~server.authDisabled
    /\ cmd' = "AUTH"
    /\ lmtpOut' = <<>>
    /\ ReadsLine
    \* an input the path taken does not read has one value
    /\ helo = "" => arg = ""
    /\ arg # "ok" => next = "done"
    /\ IF helo = "" \/ arg = ""
         THEN /\ reply' = <<502>>
              /\ calls' = <<>>
              /\ UNCHANGED <<session, nextSession, sessTx, connClosed, logouts, pc>>
         ELSE IF arg = "badir"
         THEN /\ reply' = <<>>
              /\ calls' = <<>>
              /\ UNCHANGED <<session, nextSession, sessTx, connClosed, logouts, pc>>
         ELSE IF arg = "unknown"
         THEN /\ reply' = <<504>>
              /\ calls' = <<>>
              /\ UNCHANGED <<session, nextSession, sessTx, connClosed, logouts, pc>>
         ELSE SaslNext(next, <<>>)
    /\ UNCHANGED <<dotVars, server, dataVars, helo, nbrErrors, fromReceived, recipients, recipientsmap,
                   XForward, isTLS, srvClosed, serveClosed, lmtpVars>>

\* The line read inside handleAuth's loop after a 334.  line: "readerr"
\* (ReadLine failed), "bad64" (not base64), "ok".
SaslLine(line, next) ==
    /\ pc = "sasl"
    /\ cmd' = "AUTH"
    /\ lmtpOut' = <<>>
    /\ ReadsLine
    \* an input the path taken does not read has one value
    /\ line # "ok" => next = "done"
    /\ IF line = "readerr"
         THEN /\ reply' = <<>>
              /\ calls' = <<>>
              /\ pc' = "loop"
              /\ UNCHANGED <<session, nextSession, sessTx, connClosed, logouts>>
         ELSE IF line = "bad64"
         THEN /\ reply' = <<454>>
              /\ calls' = <<>>
              /\ pc' = "loop"
              /\ UNCHANGED <<session, nextSession, sessTx, connClosed, logouts>>
         ELSE SaslNext(next, <<>>)
    /\ UNCHANGED <<dotVars, server, dataVars, helo, nbrErrors, fromReceived, recipients, recipientsmap,
                   XForward, isTLS, srvClosed, serveClosed, lmtpVars>>

\* STARTTLS.  hsOk: the TLS handshake succeeds (it cannot on a closed transport).
StartTLS(hsOk) ==
    /\ pc = "loop"
    /\ cmd' = "STARTTLS"
    /\ lmtpOut' = <<>>
    /\ ReadsLine
    \* an input the path taken does not read has one value
    /\ (isTLS \/ ~server.tlsconfig) => hsOk
    /\ IF isTLS \/ ~server.tlsconfig
         THEN /\ reply' = <<502>>
              /\ calls' = <<>>
              /\ UNCHANGED <<fromReceived, recipients, recipientsmap, XForward, isTLS>>
         ELSE /\ hsOk => ~connClosed
              /\ reply' = IF hsOk THEN <<220>> ELSE <<220, 550>>
              /\ isTLS' = TRUE
              /\ calls' = ResetCall
              /\ reset
    /\ sessTx' = IF "Reset" \in Range(calls') THEN AfterReset ELSE sessTx
    /\ UNCHANGED <<dotVars, server, dataVars, helo, nbrErrors, session, connClosed, srvClosed, serveClosed, pc,
                   sessVars, lmtpVars>>

\* ---------------------------------------------------------------- handleData
\* A handleData that checks MAIL but not the recipient list, to show what C11
\* rests on.
DataRejectedNoRcptCheck == ~fromReceived

\* handleData's envelope check (conn.go: !c.fromReceived || len(c.recipients) == 0).
DataRejected == ~fromReceived \/ Len(recipients) = 0

\* DATA up to the call of session.Data: the argument and envelope checks, the
\* 354, newdataContext.  In LMTP mode tx numbers the dataContext just created.
DataCmd(argEmpty) ==
    /\ pc = "loop"
    /\ cmd' = "DATA"
    /\ lmtpOut' = <<>>
    /\ ReadsLine
    /\ IF ~argEmpty
         THEN /\ reply' = <<501>>
              /\ calls' = <<>>
              /\ UNCHANGED <<pc, tx>>
         ELSE IF DataRejected
         THEN /\ reply' = <<502>>
              /\ calls' = <<>>
              /\ UNCHANGED <<pc, tx>>
         ELSE /\ reply' = <<354>>
              /\ calls' = <<"Data">>
              /\ pc' = "data"
              /\ IF server.lmtp
                   THEN tx < MaxTx /\ tx' = tx + 1
                   ELSE UNCHANGED tx
    /\ dataErr' = "none"
    /\ smtpresponse' = 0
    /\ UNCHANGED <<dotVars, server, connVars, srvClosed, serveClosed, sessVars, sessTx, rcptStatus, lmtpIdx,
                   sent, sending, expiredFirst, statusFirst, mapAccess>>

\* What session.Data can return: nil, an *SMTPError, another error; or it
\* panics.
DataOutcomes == {"nil", "smtperr", "err", "panic"}

\* Codes of the responses a handler installs with SetSMTPResponse.
ResponseCodes == {251, 451}

\* dataContext.SetSMTPResponse, called by the session's Data handler.
SetSMTPResponse(code) ==
    /\ pc = "data"
    /\ smtpresponse # code
    /\ smtpresponse' = code
    /\ UNCHANGED <<dotVars, server, connVars, srvClosed, serveClosed, pc, obsVars, sessVars, sessTx, lmtpVars,
                   payloadLeft, dataErr>>

\* session.Data returns, non-LMTP mode, and io.Copy(ioutil.Discard, r) runs; its
\* error is dropped.  left = 0: the stream was read up to its terminator;
\* left > 0: the stream failed (read error, size limit) or, on a panic, was
\* abandoned with that many lines unread.  A panic is recovered by handle.
DataReturn(outcome, left) ==
    /\ pc = "data"
    /\ ~server.lmtp
    /\ payloadLeft' = left
    /\ UNCHANGED <<cmd, lmtpOut>>
    /\ IF outcome = "panic"
         THEN /\ calls' = LogoutCall(session)
              /\ Panicked(session, <<>>)
              /\ pc' = "loop"
              /\ dataErr' = "none"
              /\ smtpresponse' = 0
         ELSE /\ calls' = <<>>
              /\ pc' = "reply"
              /\ dataErr' = outcome
              /\ UNCHANGED <<reply, connClosed, logouts, smtpresponse>>
    /\ UNCHANGED <<dotVars, server, helo, nbrErrors, session, fromReceived, recipients,
                   recipientsmap, XForward, isTLS, srvClosed, serveClosed, nextSession, sessTx, lmtpVars>>

\* A final reply that ignores the response the handler installed, to show what
\* C14 rests on.
DataReplyIgnoresResponse ==
    CASE dataErr = "smtperr" -> 550
      [] dataErr = "err" -> 554
      [] OTHER -> 250

\* The code of the final reply of a non-LMTP transaction (550 stands for the
\* code an *SMTPError carries).
DataReply ==
    CASE dataErr = "smtperr" -> 550
      [] dataErr = "err" -> 554
      [] smtpresponse = 0 -> 250
      [] OTHER -> smtpresponse

\* The end of handleData in non-LMTP mode: the final reply, then reset.
DataFinal ==
    /\ pc = "reply"
    /\ reply' = <<DataReply>>
    /\ calls' = ResetCall
    /\ reset
    /\ pc' = "loop"
    /\ dataErr' = "none"
    /\ smtpresponse' = 0
    /\ sessTx' = IF "Reset" \in Range(calls') THEN AfterReset ELSE sessTx
    /\ UNCHANGED <<dotVars, server, helo, nbrErrors, session, isTLS, connClosed, srvClosed, serveClosed,
                   cmd, lmtpOut, sessVars, lmtpVars, payloadLeft>>

\* ------------------------------------------- LMTP: dataContext and workers
\* dataContext.StartDelivery, called by the session's Data handler for an
\* accepted recipient: a fresh slot with a channel of capacity 1 and the ctx.
StartDelivery(r) ==
    /\ pc = "data"
    /\ server.lmtp
    /\ r \in Range(recipients)
    /\ ~rcptStatus[tx][r].started
    /\ rcptStatus' = [rcptStatus EXCEPT ![tx][r] =
                         [started |-> TRUE, ctxDone |-> FALSE, ch |-> <<>>]]
    /\ UNCHANGED <<dotVars, server, dataVars, payloadLeft, connVars, srvClosed, serveClosed, pc, obsVars, sessVars, sessTx, tx, lmtpIdx,
                   sent, sending, expiredFirst, statusFirst, mapAccess>>

\* The ctx given to StartDelivery expires or is cancelled.  Only the reply loop
\* of the dataContext's own transaction reads a ctx, so a ctx of an earlier
\* transaction is left alone.
CtxExpire(t, r) ==
    /\ t = tx
    /\ rcptStatus[t][r].started
    /\ ~rcptStatus[t][r].ctxDone
    /\ rcptStatus' = [rcptStatus EXCEPT ![t][r].ctxDone = TRUE]
    /\ expiredFirst' = [expiredFirst EXCEPT ![t][r] =
                           (sent[t][r] = 0 /\ sending[t][r] = NoStatus)]
    /\ statusFirst' = [statusFirst EXCEPT ![t][r] = (sent[t][r] > 0)]
    /\ UNCHANGED <<dotVars, server, dataVars, payloadLeft, connVars, srvClosed, serveClosed, pc, obsVars, sessVars, sessTx, tx, lmtpIdx,
                   sent, sending, mapAccess>>

\* Where a worker task stands in the map assignment of StartDelivery: not in
\* it, in it alone, in it while another task read or wrote the same map, done.
MapAccesses == {"none", "writing", "raced", "written"}

\* The map of dataContext t is accessed by a task other than the writers in
\* `but`: the map has no lock, so every write in progress is now a data race.
Overlap(t, but) ==
    [mapAccess EXCEPT ![t] = [x \in LowAddrs |->
        IF x \notin but /\ mapAccess[t][x] = "writing" THEN "raced"
        ELSE mapAccess[t][x]]]

\* A worker task of transaction t enters dataContext.SetStatus for recipient r:
\* it reads the map entry of r and then sends on the slot's channel.
SetStatusCall(t, r, code) ==
    /\ t <= tx
    /\ rcptStatus[t][r].started
    /\ sending[t][r] = NoStatus
    /\ sent[t][r] < MaxSetStatus
    /\ sending' = [sending EXCEPT ![t][r] = [code |-> code, tx |-> t]]
    /\ mapAccess' = Overlap(t, {})
    /\ UNCHANGED <<dotVars, server, dataVars, payloadLeft, connVars, srvClosed, serveClosed, pc, obsVars, sessVars, sessTx, tx, rcptStatus,
                   lmtpIdx, sent, expiredFirst, statusFirst>>

\* Capacity of the channel StartDelivery makes (make(chan *SMTPError, 1)).
ChanCap == 1

\* The channel send of SetStatus: it proceeds when the buffer has room.
SendReady(t, r) == Len(rcptStatus[t][r].ch) < ChanCap

SetStatusSend(t, r) ==
    /\ t <= tx
    /\ sending[t][r] # NoStatus
    /\ SendReady(t, r)
    /\ rcptStatus' = [rcptStatus EXCEPT ![t][r].ch = Append(@, sending[t][r])]
    /\ sent' = [sent EXCEPT ![t][r] = @ + 1]
    /\ sending' = [sending EXCEPT ![t][r] = NoStatus]
    /\ UNCHANGED <<dotVars, server, dataVars, payloadLeft, connVars, srvClosed, serveClosed, pc, obsVars, sessVars, sessTx, tx, lmtpIdx,
                   expiredFirst, statusFirst, mapAccess>>

\* session.Data returns in LMTP mode; its error is ignored.  A panic of the
\* handler is recovered by handle.
HandlerReturn(res) ==
    /\ pc = "data"
    /\ server.lmtp
    /\ UNCHANGED <<cmd, lmtpOut>>
    /\ IF res = "panic"
         THEN /\ calls' = LogoutCall(session)
              /\ Panicked(session, reply)
              /\ pc' = "loop"
              /\ UNCHANGED lmtpIdx
         ELSE /\ calls' = <<>>
              /\ pc' = "lmtp"
              /\ lmtpIdx' = 1
              /\ UNCHANGED <<reply, connClosed, logouts>>
    /\ UNCHANGED <<dotVars, server, dataVars, payloadLeft, helo, nbrErrors, session, fromReceived, recipients,
                   recipientsmap, XForward, isTLS, srvClosed, serveClosed, nextSession, sessTx, tx,
                   rcptStatus, sent, sending, expiredFirst, statusFirst, mapAccess>>

\* A reply loop that reads the connection's first dataContext in every
\* transaction, to show what C7 rests on.
SharedContext == IF tx > 0 THEN 1 ELSE 0

\* The dataContext the reply loop reads: the one newdataContext made for this
\* DATA command.
LoopContext == tx

\* A reply loop that walks the recipients from the last one, to show what C5
\* rests on.
LmtpCurrentReversed == recipients[Len(recipients) - lmtpIdx + 1]

\* The recipient the reply loop of handleData is at
\* (for _, rcpt := range c.recipients).
LmtpCurrent == recipients[lmtpIdx]

\* rcptStatus := dataContext.rcptStatus[rcpt]
LoopSlot == rcptStatus[LoopContext][LmtpCurrent]

\* After one iteration: the next recipient, or the end of the loop and reset.
LmtpAdvance ==
    IF lmtpIdx = Len(recipients)
      THEN /\ pc' = "loop"
           /\ lmtpIdx' = 0
           /\ calls' = ResetCall
           /\ reset
      ELSE /\ pc' = "lmtp"
           /\ lmtpIdx' = lmtpIdx + 1
           /\ calls' = <<>>
           /\ UNCHANGED <<fromReceived, recipients, recipientsmap, XForward>>

\* The recipient has no slot: rcptStatus.ctx dereferences a nil pointer, the
\* panic is recovered by handle (421, Close) and handleData is abandoned.
LmtpNoSlot ==
    /\ pc = "lmtp"
    /\ ~LoopSlot.started
    /\ calls' = LogoutCall(session)
    /\ Panicked(session, reply)
    /\ pc' = "loop"
    /\ lmtpIdx' = 0
    /\ UNCHANGED <<dotVars, server, dataVars, payloadLeft, helo, nbrErrors, session, fromReceived, recipients,
                   recipientsmap, XForward, isTLS, srvClosed, serveClosed, nextSession, sessTx, cmd, lmtpOut,
                   tx, rcptStatus, sent, sending, expiredFirst, statusFirst, mapAccess>>

\* The select's case <-rcptStatus.ctx.Done(): the 420 reply.
LmtpTimeout ==
    /\ pc = "lmtp"
    /\ LoopSlot.started
    /\ LoopSlot.ctxDone
    /\ reply' = Append(reply, 420)
    /\ lmtpOut' = Append(lmtpOut, [rcpt |-> LmtpCurrent, code |-> 420, tx |-> 0])
    /\ LmtpAdvance
    /\ sessTx' = IF "Reset" \in Range(calls') THEN AfterReset ELSE sessTx
    /\ UNCHANGED <<dotVars, server, dataVars, payloadLeft, helo, nbrErrors, session, isTLS, connClosed, srvClosed, serveClosed,
                   sessVars, cmd, tx, rcptStatus, sent, sending, expiredFirst, statusFirst, mapAccess>>

\* The select's case status = <-rcptStatus.ch: the status' reply.
LmtpStatus ==
    /\ pc = "lmtp"
    /\ LoopSlot.started
    /\ Len(LoopSlot.ch) > 0
    /\ LET st == Head(LoopSlot.ch)
       IN  /\ reply' = Append(reply, st.code)
           /\ lmtpOut' = Append(lmtpOut, [rcpt |-> LmtpCurrent, code |-> st.code,
                                          tx |-> st.tx])
    /\ rcptStatus' = [rcptStatus EXCEPT ![LoopContext][LmtpCurrent].ch = Tail(@)]
    /\ LmtpAdvance
    /\ sessTx' = IF "Reset" \in Range(calls') THEN AfterReset ELSE sessTx
    /\ UNCHANGED <<dotVars, server, dataVars, payloadLeft, helo, nbrErrors, session, isTLS, connClosed, srvClosed, serveClosed,
                   sessVars, cmd, tx, sent, sending, expiredFirst, statusFirst, mapAccess>>

\* ------------------------------------------------------------ specifications
\* An SMTP (non-LMTP) server: every command the dispatcher knows.
Init == InitConn(ServerConfigs({FALSE})) /\ NoReader

Next ==
    \/ \E kind \in {"EOF", "timeout", "ioerror"} : ReadError(kind)
    \/ Unregister
    \/ ServerClose
    \/ \E c \in {"", "HELP", "VRFY", "NOOP"} : Fixed(c)
    \/ \E verb \in {"HELO", "EHLO", "LHLO"}, dom \in Domains \cup {""} : Greet(verb, dom)
    \/ Rset
    \/ Quit
    \/ \E argOk \in BOOLEAN, login, res \in CallbackResults : Mail(argOk, login, res)
    \/ \E a \in {"r1", ""}, res \in CallbackResults : Rcpt(a, res)
    \/ \E arg \in {"", "badir", "unknown", "ok"}, next \in SaslResults : Auth(arg, next)
    \/ \E line \in {"readerr", "bad64", "ok"}, next \in SaslResults : SaslLine(line, next)
    \/ \E hsOk \in BOOLEAN : StartTLS(hsOk)
    \/ \E argEmpty \in BOOLEAN : DataCmd(argEmpty)
    \/ \E code \in ResponseCodes : SetSMTPResponse(code)
    \/ \E outcome \in DataOutcomes : DataReturn(outcome, 0)
    \/ DataFinal

Spec == Init /\ [][Next]_vars

\* An LMTP server: LHLO, MAIL, RCPT, DATA, the session's Data handler, its
\* delivery workers and the ctx timers, on a connection the client keeps open.
LmtpConfigs ==
    {c \in ServerConfigs({TRUE}) :
        c.authDisabled /\ ~c.allowInsecureAuth /\ ~c.tlsconfig /\ c.maxRecipients = 0}

InitLMTP == InitConn(LmtpConfigs) /\ NoReader

\* What the session's handler, its workers, the timers and the reply loop do.
Rendezvous(codes) ==
    \/ \E r \in LowAddrs : StartDelivery(r)
    \/ \E t \in 1..MaxTx, r \in LowAddrs : CtxExpire(t, r)
    \/ \E t \in 1..MaxTx, r \in LowAddrs, code \in codes : SetStatusCall(t, r, code)
    \/ \E t \in 1..MaxTx, r \in LowAddrs : SetStatusSend(t, r)
    \/ \E res \in {"nil", "err", "panic"} : HandlerReturn(res)
    \/ LmtpNoSlot
    \/ LmtpTimeout
    \/ LmtpStatus

\* The client runs one transaction, with up to MaxRcptLen recipients.
NextLMTP ==
    \/ Greet("LHLO", "client")
    \/ Mail(TRUE, "ok", "ok")
    \/ \E a \in Addrs : Rcpt(a, "ok")
    \/ tx = 0 /\ DataCmd(TRUE)
    \/ Rendezvous(StatusCodes)

SpecLMTP == InitLMTP /\ [][NextLMTP]_vars

\* The client runs up to MaxTx transactions, each with one recipient.
NextLMTP2 ==
    \/ Greet("LHLO", "client")
    \/ Mail(TRUE, "ok", "ok")
    \/ recipients = <<>> /\ Rcpt("r1", "ok")
    \/ DataCmd(TRUE)
    \/ Rendezvous({250})

SpecLMTP2 == InitLMTP /\ [][NextLMTP2]_vars

\* ------------------------------------- LMTP: workers that share the slot map
\* A worker task spawned by the session's Data handler enters StartDelivery for
\* its recipient r and begins the map assignment s.rcptStatus[rcpt] = ... .
\* dataContext has no lock: nothing keeps a second task out of the map.
StartDeliveryBegin(r) ==
    /\ pc = "data"
    /\ server.lmtp
    /\ r \in Range(recipients)
    /\ ~rcptStatus[tx][r].started
    /\ mapAccess[tx][r] = "none"
    /\ mapAccess' = [Overlap(tx, {}) EXCEPT ![tx][r] =
                        IF \E x \in LowAddrs \ {r} : mapAccess[tx][x] \in {"writing", "raced"}
                        THEN "raced" ELSE "writing"]
    /\ UNCHANGED <<dotVars, server, dataVars, payloadLeft, connVars, srvClosed, serveClosed, pc, obsVars, sessVars, sessTx, tx, rcptStatus,
                   lmtpIdx, sent, sending, expiredFirst, statusFirst>>

\* What a Go build can make of a map write that raced with another access: the
\* entry is stored, the entry is lost, or the runtime stops the process with
\* "fatal error: concurrent map writes".
RaceOutcomes == {"stored", "lost", "fatal"}

\* The map assignment of StartDelivery for r completes.  A write that no other
\* access overlapped stores the slot; a write that raced is undefined.
StartDeliveryEnd(r, outcome) ==
    /\ pc # "crashed"
    /\ tx > 0
    /\ mapAccess[tx][r] \in {"writing", "raced"}
    /\ mapAccess[tx][r] = "writing" => outcome = "stored"
    /\ rcptStatus' = IF outcome = "stored"
                     THEN [rcptStatus EXCEPT ![tx][r] =
                              [started |-> TRUE, ctxDone |-> FALSE, ch |-> <<>>]]
                     ELSE rcptStatus
    /\ mapAccess' = IF outcome = "fatal" THEN mapAccess
                    ELSE [mapAccess EXCEPT ![tx][r] = "written"]
    /\ pc' = IF outcome = "fatal" THEN "crashed" ELSE pc
    /\ UNCHANGED <<dotVars, server, dataVars, payloadLeft, connVars, srvClosed, serveClosed, obsVars, sessVars, sessTx, tx,
                   lmtpIdx, sent, sending, expiredFirst, statusFirst>>

\* One LMTP transaction whose handler hands every recipient to a worker task of
\* its own: the worker calls StartDelivery and then SetStatus for it.
NextWorkers ==
    \/ Greet("LHLO", "client")
    \/ Mail(TRUE, "ok", "ok")
    \/ \E a \in LowAddrs : Rcpt(a, "ok")
    \/ tx = 0 /\ DataCmd(TRUE)
    \/ \E r \in LowAddrs : StartDeliveryBegin(r)
    \/ \E r \in LowAddrs, outcome \in RaceOutcomes : StartDeliveryEnd(r, outcome)
    \/ \E t \in 1..MaxTx, r \in LowAddrs :
           pc # "crashed" /\ t = tx /\ SetStatusCall(t, r, 250)
    \/ \E t \in 1..MaxTx, r \in LowAddrs :
           pc # "crashed" /\ t = tx /\ SetStatusSend(t, r)
    \/ HandlerReturn("nil")
    \/ LmtpNoSlot
    \/ LmtpStatus

SpecWorkers == InitLMTP /\ [][NextWorkers]_vars

\* An SMTP server with its defaults: DATA transactions whose drain may fail,
\* the lines that follow them, the unrecognized-command budget and QUIT.
DataConfigs ==
    [lmtp : {FALSE}, authDisabled : {TRUE}, allowInsecureAuth : {FALSE},
     tlsconfig : {FALSE}, allowXForward : {FALSE}, maxRecipients : {0}]

InitData == InitConn(DataConfigs) /\ NoReader

NextData ==
    \/ \E kind \in {"EOF", "timeout", "ioerror"} : ReadError(kind)
    \/ Unregister
    \/ Malformed
    \/ \E c \in {"", "NOOP"} : Fixed(c)
    \/ \E c \in {"FOO", "AUTH", "XFORWARD"} : Unknown(c)
    \/ Greet("EHLO", "client")
    \/ Rset
    \/ Quit
    \/ \E res \in CallbackResults : Mail(TRUE, "ok", res)
    \/ recipients = <<>> /\ Rcpt("r1", "ok")
    \/ \E argEmpty \in BOOLEAN : DataCmd(argEmpty)
    \/ \E code \in ResponseCodes : SetSMTPResponse(code)
    \/ \E outcome \in DataOutcomes, left \in 0..MaxPayload : DataReturn(outcome, left)
    \/ DataFinal

SpecData == InitData /\ [][NextData]_vars

\* The envelope over RSET, XFORWARD and DATA, on an SMTP or an LMTP server that
\* allows XFORWARD (one DATA transaction on the LMTP server).
EnvelopeConfigs ==
    [lmtp : BOOLEAN, authDisabled : {TRUE}, allowInsecureAuth : {FALSE},
     tlsconfig : {FALSE}, allowXForward : {TRUE}, maxRecipients : {0}]

InitEnvelope == InitConn(EnvelopeConfigs) /\ NoReader

\* XFORWARD arguments of one or two tokens (a second token is read only after
\* a first one with a known key and a value).
XForwardArgs ==
    {<<t>> : t \in XForwardTokens}
      \cup {<<t, u>> : t \in {v \in XForwardTokens : v.key # "BAD" /\ v.hasVal},
                       u \in XForwardTokens}

NextEnvelope ==
    \/ \E verb \in {"EHLO", "LHLO"} : ~GreetMismatch(verb) /\ Greet(verb, "client")
    \/ Mail(TRUE, "ok", "ok")
    \/ recipients = <<>> /\ Rcpt("r1", "ok")
    \/ \E toks \in XForwardArgs : XForwardCmd(toks)
    \/ Rset
    \/ (server.lmtp => tx = 0) /\ DataCmd(TRUE)
    \/ \E outcome \in DataOutcomes : DataReturn(outcome, 0)
    \/ DataFinal
    \/ Rendezvous({250})

SpecEnvelope == InitEnvelope /\ [][NextEnvelope]_vars

\* A connection Serve has just accepted, with its handler task not started yet,
\* of a client that greets, sends lines the server rejects, idles or quits, on
\* a server that is closed at any moment.  No session is installed, so Conn.Close calls no Logout.
InitClose == InitConnAt(DataConfigs, "accepted", <<>>) /\ NoReader

\* ReadLine on a transport that Conn.Close has closed: it fails.
ReadClosed == connClosed /\ ReadError("ioerror")

NextClose ==
    \/ Register
    \/ ServerClose
    \/ ServeReturn
    \/ \E c \in {"", "NOOP", "VRFY"} : Fixed(c)
    \/ Malformed
    \/ Unknown("FOO")
    \/ \E dom \in Domains : Greet("EHLO", dom)
    \/ Rset
    \/ Quit
    \/ \E kind \in {"EOF", "timeout"} : ReadError(kind)
    \/ ReadClosed
    \/ Unregister

\* The server's own tasks keep running: the handler task registers, a read on
\* a closed transport fails, the deferred function unregisters, and Serve
\* returns after Close.  Nothing makes the client send or hang up.
SpecClose ==
    /\ InitClose
    /\ [][NextClose]_vars
    /\ WF_vars(Register)
    /\ WF_vars(ServeReturn)
    /\ WF_vars(ReadClosed)
    /\ WF_vars(Unregister)

\* --------------------------------------------------------- the data reader
\* The reader handleData hands to session.Data (newDataReader, conn.go:510)
\* reads the wire byte by byte.  Bytes are CR, LF, the dot and one ordinary
\* byte.
Bytes == {"CR", "LF", ".", "a"}

CRLF == <<"CR", "LF">>

\* The line that ends a message, with the CRLF that ends the line before it.
Terminator == <<"CR", "LF", ".", "CR", "LF">>

Messages == UNION {[1..n -> Bytes] : n \in 0..MaxMsgLen}

\* A line begins at the start of the message and after every CR LF.
LineStart(m, i) == i = 1 \/ (i > 2 /\ m[i - 2] = "CR" /\ m[i - 1] = "LF")

\* Dot-stuffing that stuffs nothing.
dotStuffNothing(m) == m

\* Dot-stuffing: every line of m that starts with a dot gets one more dot in
\* front.
dotStuff(m) ==
    LET RECURSIVE From(_)
        From(i) ==
            IF i > Len(m) THEN <<>>
            ELSE (IF LineStart(m, i) /\ m[i] = "." THEN <<".", ".">> ELSE <<m[i]>>)
                   \o From(i + 1)
    IN  From(1)

\* What a client puts on the wire for a message: dot-stuffed and terminated,
\* terminated without dot-stuffing, or cut off before the terminator.
DotFramings == {"stuffed", "plain", "cut"}

Frame(m, framing) ==
    CASE framing = "stuffed" -> dotStuff(m) \o Terminator
      [] framing = "plain" -> m \o Terminator
      [] OTHER -> m

\* A reader that turns every CR LF into LF, as net/textproto's does.
DotNextDropsCR(state, c) ==
    CASE state = "BeginLine" ->
           IF c = "." THEN [state |-> "Dot", out |-> <<>>]
           ELSE IF c = "CR" THEN [state |-> "CR", out |-> <<>>]
           ELSE [state |-> "Data", out |-> <<c>>]
      [] state = "Dot" ->
           IF c = "CR" THEN [state |-> "DotCR", out |-> <<>>]
           ELSE [state |-> "Data", out |-> <<c>>]
      [] state = "DotCR" ->
           IF c = "LF" THEN [state |-> "EOF", out |-> <<>>]
           ELSE IF c = "CR" THEN [state |-> "CR", out |-> <<"CR">>]
           ELSE [state |-> "Data", out |-> <<"CR", c>>]
      [] state = "CR" ->
           IF c = "LF" THEN [state |-> "BeginLine", out |-> <<"LF">>]
           ELSE IF c = "CR" THEN [state |-> "CR", out |-> <<"CR">>]
           ELSE [state |-> "Data", out |-> <<"CR", c>>]
      [] OTHER ->
           IF c = "CR" THEN [state |-> "CR", out |-> <<>>]
           ELSE [state |-> "Data", out |-> <<c>>]

\* One byte through dotReader.Read's state machine: the state it moves to and
\* the bytes it delivers.  A dot that begins a line is held back: followed by
\* CR LF it ends the message, otherwise it is dropped and what follows is
\* delivered.  Every other byte is delivered as it is, CR and LF included.
DotNext(state, c) ==
    CASE state = "BeginLine" ->
           IF c = "." THEN [state |-> "Dot", out |-> <<>>]
           ELSE IF c = "CR" THEN [state |-> "CR", out |-> <<c>>]
           ELSE [state |-> "Data", out |-> <<c>>]
      [] state = "Dot" ->
           IF c = "CR" THEN [state |-> "DotCR", out |-> <<>>]
           ELSE [state |-> "Data", out |-> <<c>>]
      [] state = "DotCR" ->
           IF c = "LF" THEN [state |-> "EOF", out |-> <<>>]
           ELSE IF c = "CR" THEN [state |-> "CR", out |-> <<"CR", c>>]
           ELSE [state |-> "Data", out |-> <<"CR", c>>]
      [] state = "CR" ->
           IF c = "LF" THEN [state |-> "BeginLine", out |-> <<c>>]
           ELSE IF c = "CR" THEN [state |-> "CR", out |-> <<c>>]
           ELSE [state |-> "Data", out |-> <<c>>]
      [] OTHER ->
           IF c = "CR" THEN [state |-> "CR", out |-> <<c>>]
           ELSE [state |-> "Data", out |-> <<c>>]

\* dotReader.Read takes the next byte of the wire.
DotReadByte ==
    /\ dotState \notin {"EOF", "Err"}
    /\ dotIn # <<>>
    /\ LET n == DotNext(dotState, Head(dotIn))
       IN  /\ dotState' = n.state
           /\ dotOut' = dotOut \o n.out
    /\ dotIn' = Tail(dotIn)
    /\ UNCHANGED <<server, connVars, srvClosed, serveClosed, pc, obsVars, sessVars, sessTx, lmtpVars,
                   payloadLeft, dataVars, dotMsg, dotFraming>>

\* dotReader.Read finds the wire at its end before the terminating line: the
\* read fails (io.ErrUnexpectedEOF).
DotUnexpectedEOF ==
    /\ dotState \notin {"EOF", "Err"}
    /\ dotIn = <<>>
    /\ dotState' = "Err"
    /\ UNCHANGED <<server, connVars, srvClosed, serveClosed, pc, obsVars, sessVars, sessTx, lmtpVars,
                   payloadLeft, dataVars, dotMsg, dotFraming, dotIn, dotOut>>

\* A reader on the wire a client wrote for one message of at most MaxMsgLen
\* bytes, on a connection that stays as it is.
InitDot ==
    /\ InitConn(DataConfigs)
    /\ dotMsg \in Messages
    /\ dotFraming \in DotFramings
    /\ dotIn = Frame(dotMsg, dotFraming)
    /\ dotState = "BeginLine"
    /\ dotOut = <<>>

NextDot ==
    \/ DotReadByte
    \/ DotUnexpectedEOF

SpecDot == InitDot /\ [][NextDot]_vars

\* ==================================================================== claims

\* C1: for a connection on which a session was installed, Logout is invoked on
\* that session exactly once over the connection's life: never twice, and once
\* by the time handleConn has returned.
C1_LogoutExactlyOnce ==
    session # NoSession =>
        /\ logouts[session] <= 1
        /\ pc = "done" => logouts[session] = 1

\* C2: the AUTH command reaches a SASL mechanism (sasl.Next), and so can install
\* a session, only when authAllowed holds.
C2_AuthOnlyWhenAllowed ==
    "Next" \in Range(calls) => authAllowed

\* C3: after a successful STARTTLS (reply 220 alone) the envelope and helo are
\* cleared.
C3_StartTLSClearsHelo ==
    (cmd = "STARTTLS" /\ reply = <<220>>) =>
        /\ helo = ""
        /\ ~fromReceived
        /\ recipients = <<>>
        /\ XForward = ZeroXForward

\* C4: in LMTP mode, when the reply loop of a DATA transaction is left, one
\* final reply has been written per accepted recipient.
C4_OneReplyPerRecipient ==
    [][(pc = "lmtp" /\ pc' = "loop") => Len(lmtpOut') = Len(recipients)]_vars

\* C5: in LMTP mode every per-recipient final reply is written for the next
\* recipient in RCPT acceptance order: the i-th reply of a transaction is for
\* the i-th accepted recipient.
C5_RepliesInRcptOrder ==
    [][(lmtpOut' # lmtpOut /\ lmtpOut' # <<>>) =>
          /\ Len(lmtpOut') = Len(lmtpOut) + 1
          /\ SubSeq(lmtpOut', 1, Len(lmtpOut)) = lmtpOut
          /\ Len(lmtpOut') <= Len(recipients)
          /\ lmtpOut'[Len(lmtpOut')].rcpt = recipients[Len(lmtpOut')]]_vars

\* Witness of C5: both recipients were answered in acceptance order (r2, then
\* r1) although only the worker of the second one (r1) ever set a status; the
\* first recipient's reply is its timeout.
C5_Witness ==
    /\ Len(lmtpOut) = 2
    /\ lmtpOut[1] = [rcpt |-> "r2", code |-> 420, tx |-> 0]
    /\ lmtpOut[2].rcpt = "r1"
    /\ lmtpOut[2].code = 550
    /\ sent[1]["r2"] = 0
    /\ expiredFirst[1]["r2"]
    /\ ~connClosed

\* The reply loop of transaction t can still receive from the slot of r.
CoreStillReads(t, r) ==
    /\ t = tx
    /\ \/ pc = "data"
       \/ pc = "lmtp" /\ \E i \in lmtpIdx..Len(recipients) : recipients[i] = r

\* C6: a worker inside SetStatus always returns: its send finds room in the
\* channel, or the reply loop is still to receive from that channel.
C6_SetStatusReturns ==
    \A t \in 1..MaxTx, r \in LowAddrs :
        sending[t][r] # NoStatus => (SendReady(t, r) \/ CoreStillReads(t, r))

C8_SessionNeverReplaced ==
    [][session # NoSession => session' = session]_vars

\* C9: a MAIL command handled while helo is empty is answered 502 and has no
\* effect: no backend or session callback, no session installed, fromReceived
\* unchanged.
C9_MailNeedsHelo ==
    [][(pc = "loop" /\ cmd' = "MAIL" /\ srvClosed' = srvClosed /\ helo = "") =>
          /\ reply' = <<502>>
          /\ calls' = <<>>
          /\ session' = session
          /\ nextSession' = nextSession
          /\ ~fromReceived
          /\ ~fromReceived']_vars

\* Witness of C9: a MAIL was just rejected for the missing greeting.
C9_Witness ==
    /\ cmd = "MAIL"
    /\ helo = ""
    /\ reply = <<502>>
    /\ calls = <<>>
    /\ session = NoSession

\* C10: a RCPT command handled while fromReceived is false is answered 502,
\* session.Rcpt is not called and the recipient list and set are unchanged.
C10_RcptNeedsMail ==
    [][(pc = "loop" /\ cmd' = "RCPT" /\ srvClosed' = srvClosed /\ ~fromReceived) =>
          /\ reply' = <<502>>
          /\ calls' = <<>>
          /\ recipients' = recipients
          /\ recipientsmap' = recipientsmap]_vars

\* Witness of C10: after a greeting and a session, a RCPT without MAIL was
\* just rejected.
C10_Witness ==
    /\ cmd = "RCPT"
    /\ reply = <<502>>
    /\ calls = <<>>
    /\ ~fromReceived
    /\ helo # ""
    /\ session # NoSession

\* C11: a DATA command handled while fromReceived is false or the recipient
\* list is empty is rejected: its reply holds no 354, session.Data is not
\* called, and the connection keeps reading lines as commands.
C11_DataNeedsEnvelope ==
    [][(pc = "loop" /\ cmd' = "DATA" /\ srvClosed' = srvClosed
          /\ (~fromReceived \/ recipients = <<>>)) =>
          /\ reply' \in {<<501>>, <<502>>}
          /\ calls' = <<>>
          /\ pc' = "loop"
          /\ tx' = tx]_vars

\* Witness of C11: after MAIL and no RCPT, a DATA without argument was just
\* rejected.
C11_Witness ==
    /\ cmd = "DATA"
    /\ reply = <<502>>
    /\ fromReceived
    /\ recipients = <<>>
    /\ pc = "loop"
    /\ ~connClosed

\* C12: a step that is RSET, or that ends a DATA transaction with its final
\* reply or replies, leaves fromReceived false, the recipient list and set
\* empty and XForward zero, calls session.Reset exactly once when a session
\* exists, and changes neither helo nor the installed session.
C12_ResetAfterRsetAndData ==
    [][(\/ pc = "loop" /\ cmd' = "RSET" /\ srvClosed' = srvClosed
        \/ pc \in {"reply", "lmtp"} /\ pc' = "loop" /\ 421 \notin Range(reply')) =>
          /\ ~fromReceived'
          /\ recipients' = <<>>
          /\ recipientsmap' = {}
          /\ XForward' = ZeroXForward
          /\ calls' = (IF session # NoSession THEN <<"Reset">> ELSE <<>>)
          /\ helo' = helo
          /\ session' = session]_vars

\* Witness of C12: an LMTP transaction whose envelope held an XFORWARD name has
\* just been answered and reset; the session and helo are still there.
C12_Witness ==
    /\ server.lmtp
    /\ cmd = "DATA"
    /\ pc = "loop"
    /\ Len(lmtpOut) = 1
    /\ calls = <<"Reset">>
    /\ ~fromReceived
    /\ recipients = <<>>
    /\ XForward = ZeroXForward
    /\ helo = "client"
    /\ session # NoSession
    /\ ~connClosed

\* C13: a failed drain closes the connection, so that no line of a message
\* payload is dispatched as a command: the command loop of a connection the
\* server has not closed never takes a payload line off the wire.
C13_NoPayloadLineAsCommand ==
    [][~(pc = "loop" /\ ~connClosed /\ payloadLeft > 0
           /\ payloadLeft' = payloadLeft - 1)]_vars

\* C14: in non-LMTP mode the step that ends a DATA transaction writes exactly
\* one reply: 250 when the handler returned nil and installed no response, the
\* installed response's code when it returned nil and installed one, the
\* error's code when it returned an *SMTPError, 554 for any other error.
C14_DataFinalReply ==
    [][(pc = "reply" /\ pc' = "loop") =>
          /\ Len(reply') = 1
          /\ (dataErr = "nil" /\ smtpresponse = 0) => reply'[1] = 250
          /\ (dataErr = "nil" /\ smtpresponse # 0) => reply'[1] = smtpresponse
          /\ dataErr = "smtperr" => reply'[1] = 550
          /\ dataErr = "err" => reply'[1] = 554]_vars

\* Witness of C14: a transaction whose handler installed the 251 response and
\* returned nil has just been answered with it.
C14_Witness ==
    /\ ~server.lmtp
    /\ cmd = "DATA"
    /\ pc = "loop"
    /\ reply = <<251>>
    /\ calls = <<"Reset">>
    /\ ~connClosed

\* C15: every command line taken by the command loop is answered with exactly
\* one reply.
C15_OneReplyPerCommand ==
    [][(pc = "loop" /\ srvClosed' = srvClosed
          /\ cmd' \notin {"EOF", "timeout", "ioerror"}) =>
          Len(reply') = 1]_vars

\* C16: once the server has closed the connection, the command loop passes no
\* further line to handle: its steps are failing reads (or lines parseCmd
\* rejects), and no backend or session callback other than Logout is made.
C16_NoDispatchAfterClose ==
    [][(connClosed /\ pc = "loop" /\ srvClosed' = srvClosed) =>
          /\ cmd' \in {"EOF", "timeout", "ioerror", "malformed"}
          /\ Range(calls') \subseteq {"Logout"}]_vars

\* C17: with maxRecipients > 0 the recipient list never holds more than
\* maxRecipients entries, and a RCPT TO:<r1> handled after MAIL when the list
\* already holds maxRecipients entries is answered 552, calls nothing on the
\* session and leaves the list and the set unchanged.
C17_MaxRecipients ==
    /\ [](server.maxRecipients > 0 => Len(recipients) <= server.maxRecipients)
    /\ [][((\E res \in CallbackResults : Rcpt("r1", res)) /\ fromReceived
             /\ server.maxRecipients > 0
             /\ Len(recipients) >= server.maxRecipients) =>
            /\ reply' = <<552>>
            /\ calls' = <<>>
            /\ recipients' = recipients
            /\ recipientsmap' = recipientsmap]_vars

\* Witness of C17: with maxRecipients = 1 and one recipient accepted, a second
\* RCPT was just answered 552.
C17_Witness ==
    /\ server.maxRecipients = 1
    /\ cmd = "RCPT"
    /\ reply = <<552>>
    /\ calls = <<>>
    /\ recipients = <<"r1">>
    /\ ~connClosed

\* Two addresses of Addrs that are equal ignoring case.
SameIgnoringCase(a, b) == a = b \/ {a, b} = {"r1", "R1"}

FirstCRLF(w) ==
    LET ends == {i \in 1..(Len(w) - 1) : w[i] = "CR" /\ w[i + 1] = "LF"}
    IN  IF ends = {} THEN 0 ELSE CHOOSE i \in ends : \A j \in ends : i <= j

\* A line without the dot it begins with, if it begins with one.
Undot(line) == IF line # <<>> /\ line[1] = "." THEN Tail(line) ELSE line

\* The wire w taken line by line: its lines before the first line that is a
\* lone dot, each without its leading dot and with its CR LF.
RECURSIVE Delivered(_)
Delivered(w) ==
    LET e == FirstCRLF(w)
        line == SubSeq(w, 1, e - 1)
    IN  IF e = 0 \/ line = <<".">> THEN <<>>
        ELSE Undot(line) \o CRLF \o Delivered(SubSeq(w, e + 2, Len(w)))

\* What follows the first line of w that is a lone dot.
RECURSIVE AfterEnd(_)
AfterEnd(w) ==
    LET e == FirstCRLF(w)
        rest == SubSeq(w, e + 2, Len(w))
    IN  IF e = 0 THEN <<>>
        ELSE IF SubSeq(w, 1, e - 1) = <<".">> THEN rest
        ELSE AfterEnd(rest)

IsPrefix(a, b) == Len(a) <= Len(b) /\ a = SubSeq(b, 1, Len(a))

\* C19: on a wire of CRLF-terminated lines that ends with the line of a lone
\* dot, the reader never fails and never delivers a byte out of place; when it
\* reports the end of the stream it has delivered exactly the lines before the
\* first lone-dot line, each with its CR LF and without its one leading dot,
\* and has taken that lone-dot line, and nothing after it, from the wire.
C19_DeliversPayloadLines ==
    dotFraming \in {"stuffed", "plain"} =>
        /\ dotState # "Err"
        /\ IsPrefix(dotOut, Delivered(Frame(dotMsg, dotFraming)))
        /\ dotState = "EOF" =>
             /\ dotOut = Delivered(Frame(dotMsg, dotFraming))
             /\ dotIn = AfterEnd(Frame(dotMsg, dotFraming))

\* Witness of C19: the wire  a CR LF . . CR LF . CR LF  read to its end.
C19_Witness ==
    /\ dotFraming = "plain"
    /\ dotMsg = <<"a", "CR", "LF", ".", ".">>
    /\ dotState = "EOF"
    /\ dotOut = <<"a", "CR", "LF", ".", "CR", "LF">>
    /\ dotIn = <<>>

Contains(m, t) ==
    \E i \in 1..(Len(m) - Len(t) + 1) : SubSeq(m, i, i + Len(t) - 1) = t

\* C20 as stated: a message without CR LF . CR LF, dot-stuffed and followed by
\* CR LF . CR LF, comes out of the reader as exactly that message, followed by
\* the end of the stream.
C20_RoundTripExact ==
    (dotFraming = "stuffed" /\ ~Contains(dotMsg, Terminator)) =>
        /\ dotState # "Err"
        /\ dotState = "EOF" => (dotOut = dotMsg /\ dotIn = <<>>)

\* C20: a message without CR LF . CR LF, dot-stuffed and followed by
\* CR LF . CR LF, comes out of the reader as that message followed by CR LF
\* (the CR LF that ends its last line on the wire), followed by the end of the
\* stream with the whole wire read.
C20_RoundTripWithCRLF ==
    (dotFraming = "stuffed" /\ ~Contains(dotMsg, Terminator)) =>
        /\ dotState # "Err"
        /\ IsPrefix(dotOut, dotMsg \o CRLF)
        /\ dotState = "EOF" => (dotOut = dotMsg \o CRLF /\ dotIn = <<>>)

\* Witness of C20: the message  . CR LF . a  dot-stuffed, framed and read to
\* the end of the stream.
C20_Witness ==
    /\ dotFraming = "stuffed"
    /\ dotMsg = <<".", "CR", "LF", ".", "a">>
    /\ dotState = "EOF"
    /\ dotOut = <<".", "CR", "LF", ".", "a", "CR", "LF">>
    /\ dotIn = <<>>

\* C21: whenever the counter of unrecognized commands and malformed lines is 4
\* or more the connection has been closed, and the connection task then
\* handles no further line: its next step is the failing read.
C21_CounterClosesAtFour ==
    /\ [](nbrErrors >= 4 => connClosed)
    /\ [][(nbrErrors >= 4 /\ pc = "loop" /\ srvClosed' = srvClosed) =>
            cmd' \in {"EOF", "timeout", "ioerror"}]_vars

\* C22: a greeting whose verb does not match the server mode (HELO or EHLO on
\* an LMTP server, LHLO on any other) is answered with the single reply 500 and
\* leaves helo as it was.
C22_MismatchIsTerminal ==
    [][(pc = "loop" /\ srvClosed' = srvClosed
          /\ \/ server.lmtp /\ cmd' \in {"HELO", "EHLO"}
             \/ ~server.lmtp /\ cmd' = "LHLO") =>
         (reply' = <<500>> /\ helo' = helo)]_vars

\* C23: an XFORWARD command answered 501 (unknown key) leaves the four fields
\* of XForward exactly as they were before the command.
C23_BadXForwardChangesNothing ==
    [][(pc = "loop" /\ cmd' = "XFORWARD" /\ reply' = <<501>> /\ lmtpVars' = lmtpVars) =>
         XForward' = XForward]_vars

\* C24: while helo is empty, a MAIL, RCPT, DATA, AUTH or STARTTLS is answered
\* with one error reply (4xx or 5xx), calls nothing, and leaves the transport,
\* the session and the envelope as they were.
C24_NothingBeforeGreeting ==
    [][(pc = "loop" /\ helo = "" /\ srvClosed' = srvClosed
          /\ cmd' \in {"MAIL", "RCPT", "DATA", "AUTH", "STARTTLS"}) =>
         /\ Len(reply') = 1
         /\ reply'[1] >= 400
         /\ calls' = <<>>
         /\ pc' = "loop"
         /\ UNCHANGED <<isTLS, connClosed, session, fromReceived, recipients,
                        recipientsmap, XForward>>]_vars

\* C25: once Server.Close has returned, the connection Serve accepted is
\* eventually closed and removed from the server's set of connections.
C25_CloseReachesEveryConn == [](srvClosed => <>(connClosed /\ pc = "done"))

\* C26: in LMTP mode the reply loop never answers 420 for a recipient whose
\* status a worker had set (SetStatus had returned) before the recipient's ctx
\* expired.
C26_StatusBeforeExpiryWins ==
    [][(pc = "lmtp" /\ lmtpOut' # lmtpOut /\ LoopSlot.started
          /\ statusFirst[tx][LmtpCurrent]) =>
         lmtpOut'[Len(lmtpOut')].code # 420]_vars

\* C27: the connection counts as running in TLS only after a handshake that
\* succeeded: a STARTTLS answered with the 550 handshake error leaves it not
\* TLS, so a later STARTTLS is not refused as already in TLS and AUTH stays
\* subject to allowInsecureAuth.
C27_TLSOnlyAfterHandshake ==
    [][(pc = "loop" /\ cmd' = "STARTTLS" /\ srvClosed' = srvClosed
          /\ 550 \in Range(reply')) =>
         (isTLS' = isTLS /\ ~isTLS')]_vars

\* C28: session.Rcpt is only called on a session whose Mail has succeeded
\* since its last Reset, and session.Data only on a session that has accepted
\* a Rcpt since then.
C28_CallbacksFollowTransaction ==
    [][(pc = "loop" /\ srvClosed' = srvClosed) =>
         /\ (cmd' = "RCPT" /\ "Rcpt" \in Range(calls')) => sessTx \in {"mail", "rcpt"}
         /\ (cmd' = "DATA" /\ "Data" \in Range(calls')) => sessTx = "rcpt"]_vars

\* C29: the slot table of a DataContext is safe when worker tasks call
\* StartDelivery and SetStatus for distinct recipients concurrently: no write of
\* the table overlaps another task's access to it, and every recipient whose
\* StartDelivery has returned has its own slot.
C29_SlotTableSafe ==
    \A t \in 1..MaxTx, r \in LowAddrs :
        /\ mapAccess[t][r] # "raced"
        /\ mapAccess[t][r] = "written" => rcptStatus[t][r].started

====
